---------------------------- MODULE Spec2Model ----------------------------
(***************************************************************************)
(* Model of the authentication/session lifecycle (pkg/auth, the session    *)
(* middleware, UserService) and of the attachment upload saga              *)
(* (AttachmentService.Create) of splose-clone-be.                          *)
(*                                                                         *)
(* Time is one clock, `now`, in ticks.  A tick is the resolution of        *)
(* time.Now().UnixMilli(); jwt.NewNumericDate truncates to a whole         *)
(* "second" of TimePrecision ticks (the real second is scaled down so      *)
(* that the clock stays small while the two resolutions stay different).   *)
(*                                                                         *)
(* A signature is the abstract MAC <<alg, key, claims>>: two signatures    *)
(* are equal exactly when algorithm, key and signed payload are equal.     *)
(***************************************************************************)
EXTENDS Integers, Sequences, FiniteSets, TLC

VARIABLES
    now,      \* the wall clock, in ticks
    wire,     \* the tokens a client currently holds (issued, not stored server-side)
    resp,     \* the observable outcome of the last request / call
    users,    \* credential store: the rows of table users
    blobs,    \* object store: the keys that hold a blob
    atts,     \* credential store: the rows of table attachments
    saga,     \* per running AttachmentService.Create invocation: its position and locals
    calls,    \* per invocation: the side-effecting calls it has made, in order
    reg,      \* per request goroutine in UserService.Register: its position and locals
    msgs      \* credential store: the rows of table messages, in order of insertion

vars == <<now, wire, resp, users, blobs, atts, saga, calls, reg, msgs>>

-----------------------------------------------------------------------------
(* Bounds *)

\* most rows the messages table holds
MaxMessages == 4

MaxTime == 4

-----------------------------------------------------------------------------
(* pkg/auth/jwt.go *)

TimePrecision == 2

AccessTTL == 2

RefreshTTL == 4

Secret == "s1"

OtherSecret == "s2"

AccessToken == "access"

RefreshToken == "refresh"

ErrTokenExpired == "auth.ErrTokenExpired"

ErrTokenInvalid == "auth.ErrTokenInvalid"

JwtErrTokenExpired == "jwt.ErrTokenExpired"

NoErr == "nil"

Manager(secret) == [secret |-> secret, accessTTL |-> AccessTTL, refreshTTL |-> RefreshTTL]

NewManager == Manager(Secret)

OtherManager == Manager(OtherSecret)

Managers == {NewManager, OtherManager}

UserIDs == {"u1", "u2"}

Roles == {"user", "admin"}

Algs == {"HS256", "HS384", "HS512", "RS256", "none"}

SigningMethodHMAC == {"HS256", "HS384", "HS512"}

NoClaims == [id |-> "", role |-> "", type |-> "", iat |-> 0, exp |-> 0]

Claims(userID, role, tt, iat, exp) ==
    [id |-> userID, role |-> role, type |-> tt, iat |-> iat, exp |-> exp]

NewNumericDate(t) == t - (t % TimePrecision)

\* token.SignedString / the signature a verifier recomputes: "none" signs with
\* the empty signature, every other method with a MAC/signature over the payload
SignedString(alg, key, claims) ==
    IF alg = "none" THEN <<alg>> ELSE <<alg, key, claims>>

Token(alg, key, claims) ==
    [wf |-> TRUE, alg |-> alg, claims |-> claims, sig |-> SignedString(alg, key, claims)]

\* a string that is no three-part token
Garbage == [wf |-> FALSE, alg |-> "", claims |-> NoClaims, sig |-> <<>>]

generate(m, userID, role, tt, ttl, t) ==
    Token("HS256", m.secret,
          Claims(userID, role, tt, NewNumericDate(t), NewNumericDate(t + ttl)))

GenerateAccessToken(m, userID, role, t) ==
    generate(m, userID, role, AccessToken, m.accessTTL, t)

GenerateRefreshToken(m, userID, role, t) ==
    generate(m, userID, role, RefreshToken, m.refreshTTL, t)

\* faulty variant of ParseWithClaims: a token is still valid at its expiry instant
ParseWithClaimsLateExpiry(m, tokenStr, t) ==
    IF ~tokenStr.wf THEN "jwt.ErrTokenMalformed"
    ELSE IF tokenStr.alg \notin SigningMethodHMAC THEN "jwt.ErrTokenUnverifiable"
    ELSE IF tokenStr.sig # SignedString(tokenStr.alg, m.secret, tokenStr.claims)
         THEN "jwt.ErrTokenSignatureInvalid"
    ELSE IF ~(t <= tokenStr.claims.exp) THEN JwtErrTokenExpired
    ELSE NoErr

\* faulty variant of ParseWithClaims: the signature is not verified
ParseWithClaimsNoSignature(m, tokenStr, t) ==
    IF ~tokenStr.wf THEN "jwt.ErrTokenMalformed"
    ELSE IF tokenStr.alg \notin SigningMethodHMAC THEN "jwt.ErrTokenUnverifiable"
    ELSE IF ~(t < tokenStr.claims.exp) THEN JwtErrTokenExpired
    ELSE NoErr

\* jwt.ParseWithClaims with the key function of Manager.Parse (jwt.go:76-83):
\* split and decode, look the method up, ask the key function for the key,
\* verify the signature, then validate the registered claims (exp: now < exp)
ParseWithClaims(m, tokenStr, t) ==
    IF ~tokenStr.wf THEN "jwt.ErrTokenMalformed"
    ELSE IF tokenStr.alg \notin SigningMethodHMAC THEN "jwt.ErrTokenUnverifiable"
    ELSE IF tokenStr.sig # SignedString(tokenStr.alg, m.secret, tokenStr.claims)
         THEN "jwt.ErrTokenSignatureInvalid"
    ELSE IF ~(t < tokenStr.claims.exp) THEN JwtErrTokenExpired
    ELSE NoErr

Parse(m, tokenStr, t) ==
    LET err == ParseWithClaims(m, tokenStr, t) IN
    IF err # NoErr
    THEN IF err = JwtErrTokenExpired
         THEN [claims |-> NoClaims, err |-> JwtErrTokenExpired]
         ELSE [claims |-> NoClaims, err |-> ErrTokenInvalid]
    ELSE [claims |-> tokenStr.claims, err |-> NoErr]

-----------------------------------------------------------------------------
(* internal/middleware/middleware.go *)

\* A header value is a sequence of elements: a space, a word, or a token string.
HSp == [k |-> "sp", w |-> "", t |-> Garbage]

HWord(w) == [k |-> "word", w |-> w, t |-> Garbage]

HTok(t) == [k |-> "tok", w |-> "", t |-> t]

FirstSp(s) ==
    IF \E i \in 1..Len(s) : s[i].k = "sp"
    THEN CHOOSE i \in 1..Len(s) : s[i].k = "sp" /\ \A j \in 1..(i - 1) : s[j].k # "sp"
    ELSE 0

\* strings.SplitN(header, " ", 2)
SplitN2(s) ==
    IF FirstSp(s) = 0 THEN <<s>>
    ELSE <<SubSeq(s, 1, FirstSp(s) - 1), SubSeq(s, FirstSp(s) + 1, Len(s))>>

ToLower(w) ==
    CASE w = "Bearer" -> "bearer"
      [] w = "BEARER" -> "bearer"
      [] w = "Basic" -> "basic"
      [] OTHER -> w

\* faulty variant of EqualFold: any scheme word passes
EqualFoldAnyWord(part, word) ==
    /\ Len(part) = 1
    /\ part[1].k = "word"

\* strings.EqualFold(part, word) for a part of a header value
EqualFold(part, word) ==
    /\ Len(part) = 1
    /\ part[1].k = "word"
    /\ ToLower(part[1].w) = ToLower(word)

\* the token string a header part is: one token, or something no token parser accepts
TokenOf(part) ==
    IF Len(part) = 1 /\ part[1].k = "tok" THEN part[1].t ELSE Garbage

Rejected(status, reason) ==
    [status |-> status, reason |-> reason, userID |-> "", role |-> "",
     injected |-> FALSE, aborted |-> TRUE, next |-> FALSE]

\* faulty variant of Authenticate: the token's kind is not looked at
AuthenticateAnyKind(jwtManager, header, t) ==
    IF header = <<>> THEN Rejected(401, "authorization header required")
    ELSE LET parts == SplitN2(header) IN
    IF Len(parts) # 2 \/ ~EqualFold(parts[1], "bearer")
    THEN Rejected(401, "invalid authorization header format")
    ELSE LET p == Parse(jwtManager, TokenOf(parts[2]), t) IN
    IF p.err # NoErr
    THEN IF p.err = ErrTokenExpired
         THEN Rejected(401, "token has expired")
         ELSE Rejected(401, "invalid token")
    ELSE [status |-> 200, reason |-> "", userID |-> p.claims.id, role |-> p.claims.role,
          injected |-> TRUE, aborted |-> FALSE, next |-> TRUE]

\* Authenticate: the gin context after the middleware ran on a request with this
\* Authorization header.  next = the rest of the handler chain was run (c.Next()).
Authenticate(jwtManager, header, t) ==
    IF header = <<>> THEN Rejected(401, "authorization header required")
    ELSE LET parts == SplitN2(header) IN
    IF Len(parts) # 2 \/ ~EqualFold(parts[1], "bearer")
    THEN Rejected(401, "invalid authorization header format")
    ELSE LET p == Parse(jwtManager, TokenOf(parts[2]), t) IN
    IF p.err # NoErr
    THEN IF p.err = ErrTokenExpired
         THEN Rejected(401, "token has expired")
         ELSE Rejected(401, "invalid token")
    ELSE IF p.claims.type # AccessToken THEN Rejected(401, "invalid token type")
    ELSE [status |-> 200, reason |-> "", userID |-> p.claims.id, role |-> p.claims.role,
          injected |-> TRUE, aborted |-> FALSE, next |-> TRUE]

\* the gin context of a request no middleware has touched yet
FreshContext ==
    [status |-> 200, reason |-> "", userID |-> "", role |-> "",
     injected |-> FALSE, aborted |-> FALSE, next |-> FALSE]

\* RequireRole(roles...): 403 and abort unless the injected role is allowed.
\* With no role in the context, role.(string) panics and Recovery answers 500.
RequireRole(allowed, ctx) ==
    IF ~ctx.injected
    THEN [ctx EXCEPT !.status = 500, !.reason = "internal server error",
                     !.aborted = TRUE, !.next = FALSE]
    ELSE IF ctx.role \notin allowed
    THEN [ctx EXCEPT !.status = 403, !.reason = "forbidden",
                     !.aborted = TRUE, !.next = FALSE]
    ELSE ctx

\* faulty variant of UsersListChain: the role gate is registered before Authenticate
UsersListChainRoleFirst == <<"RequireRole", "Authenticate", "List">>

\* the handler chain of GET /api/v1/users (router.go:61 and 69)
UsersListChain == <<"Authenticate", "RequireRole", "List">>

\* one handler of a chain applied to the context
RunHandler(h, jwtManager, ctx, header, t) ==
    CASE h = "Authenticate" -> Authenticate(jwtManager, header, t)
      [] h = "RequireRole" -> RequireRole({"admin"}, ctx)
      [] OTHER -> ctx

\* gin runs the chain in order until a handler aborts; ran lists the handlers
\* that ran, each with whether an identity was injected when it started
RECURSIVE RunChain(_, _, _, _, _, _)
RunChain(chain, jwtManager, ctx, ran, header, t) ==
    IF chain = <<>> \/ ctx.aborted THEN [ctx |-> ctx, ran |-> ran]
    ELSE RunChain(Tail(chain), jwtManager,
                  RunHandler(Head(chain), jwtManager, ctx, header, t),
                  Append(ran, [h |-> Head(chain), injected |-> ctx.injected,
                               role |-> ctx.role]),
                  header, t)

-----------------------------------------------------------------------------
(* Credential store: internal/repositories (userRepo) over table users *)

Emails == {"a@x.io", "b@x.io"}

Passwords == {"password1", "password2"}

ErrNotFound == "repositories.ErrNotFound"

ErrEmailTaken == "services.ErrEmailTaken"

ErrInvalidCredentials == "services.ErrInvalidCredentials"

ErrInvalidRefreshToken == "services.ErrInvalidRefreshToken"

ErrDB == "db error"

\* fmt.Errorf("creating user: %w", err): wraps the store's error
ErrCreatingUser == "creating user: db error"

\* the zero value of entities.User
ZeroUser == [id |-> "", email |-> "", hash |-> <<>>, role |-> "", deleted |-> FALSE]

\* rows a query sees: gorm adds "deleted_at IS NULL" for a model with DeletedAt
Live(rows) == {r \in rows : ~r.deleted}

\* userRepo.FindByEmail: ErrNotFound when no live row matches; any other query
\* error is logged and swallowed, and the zero User is returned with a nil error
FindByEmail(rows, email, dbOK) ==
    IF ~dbOK THEN [user |-> ZeroUser, isNil |-> FALSE, err |-> NoErr]
    ELSE IF \E r \in Live(rows) : r.email = email
         THEN [user |-> CHOOSE r \in Live(rows) : r.email = email,
               isNil |-> FALSE, err |-> NoErr]
         ELSE [user |-> ZeroUser, isNil |-> TRUE, err |-> ErrNotFound]

\* userRepo.Create: BeforeCreate gives the row a fresh UUID; the unique index on
\* email (over all rows, soft-deleted ones too) or a failing store rejects it
RepoCreate(rows, user, dbOK) ==
    IF ~dbOK \/ \E r \in rows : r.email = user.email
    THEN [rows |-> rows, user |-> user, err |-> ErrDB]
    ELSE LET id == CHOOSE i \in UserIDs : \A r \in rows : r.id # i
             row == [user EXCEPT !.id = id]
         IN  [rows |-> rows \cup {row}, user |-> row, err |-> NoErr]

\* userRepo.FindByID: as FindByEmail, a query error other than "no row" is
\* logged and a zero User is returned with a nil error
FindByID(rows, id, dbOK) ==
    IF ~dbOK THEN [user |-> ZeroUser, isNil |-> FALSE, err |-> NoErr]
    ELSE IF \E r \in Live(rows) : r.id = id
         THEN [user |-> CHOOSE r \in Live(rows) : r.id = id,
               isNil |-> FALSE, err |-> NoErr]
         ELSE [user |-> ZeroUser, isNil |-> TRUE, err |-> ErrNotFound]

\* userRepo.Update: gorm's Save. With an empty primary key Save inserts (fresh
\* UUID, column default for an empty role); otherwise it writes every column of
\* the row with that id. The unique index on email rejects a duplicate.
RepoUpdate(rows, user, dbOK) ==
    IF ~dbOK \/ \E r \in rows : r.email = user.email /\ r.id # user.id
    THEN [rows |-> rows, err |-> ErrDB]
    ELSE IF user.id = ""
    THEN LET id == CHOOSE i \in UserIDs : \A r \in rows : r.id # i
             row == [user EXCEPT !.id = id,
                                 !.role = IF user.role = "" THEN "user" ELSE user.role]
         IN  [rows |-> rows \cup {row}, err |-> NoErr]
    ELSE [rows |-> {IF r.id = user.id /\ ~r.deleted THEN user ELSE r : r \in rows},
          err |-> NoErr]

\* userRepo.SoftDelete: a failing statement is logged; no row affected is ErrNotFound
RepoSoftDelete(rows, id, dbOK) ==
    IF ~dbOK \/ ~\E r \in Live(rows) : r.id = id
    THEN [rows |-> rows, err |-> ErrNotFound]
    ELSE [rows |-> {IF r.id = id /\ ~r.deleted THEN [r EXCEPT !.deleted = TRUE] ELSE r
                       : r \in rows},
          err |-> NoErr]

-----------------------------------------------------------------------------
(* UserService (services) *)

\* bcrypt.GenerateFromPassword: a salted one-way hash, abstracted to a tag over
\* the password; bcrypt.CompareHashAndPassword succeeds on that password only
GenerateFromPassword(password) == <<"$2a$", password>>

CompareHashAndPassword(hash, password) == hash = <<"$2a$", password>>

NoPair == [access |-> Garbage, refresh |-> Garbage]

\* faulty variant of issueTokenPair: the two kinds are swapped
issueTokenPairSwapped(m, userID, role, t) ==
    [access |-> GenerateRefreshToken(m, userID, role, t),
     refresh |-> GenerateAccessToken(m, userID, role, t)]

issueTokenPair(m, userID, role, t) ==
    [access |-> GenerateAccessToken(m, userID, role, t),
     refresh |-> GenerateRefreshToken(m, userID, role, t)]

\* faulty variant of Register: hashes and writes without looking the email up
RegisterNoLookup(rows, email, password, dbFind, dbCreate) ==
    LET user == [id |-> "", email |-> email, hash |-> GenerateFromPassword(password),
                 role |-> "user", deleted |-> FALSE]
        c == RepoCreate(rows, user, dbCreate)
    IN  IF c.err # NoErr
        THEN [rows |-> rows, user |-> ZeroUser, err |-> ErrCreatingUser, hashed |-> TRUE]
        ELSE [rows |-> c.rows, user |-> c.user, err |-> NoErr, hashed |-> TRUE]

\* faulty variant of Register: the first account of an empty store is an admin
RegisterFirstIsAdmin(rows, email, password, dbFind, dbCreate) ==
    IF FindByEmail(rows, email, dbFind).err = NoErr
    THEN [rows |-> rows, user |-> ZeroUser, err |-> ErrEmailTaken, hashed |-> FALSE]
    ELSE LET user == [id |-> "", email |-> email, hash |-> GenerateFromPassword(password),
                      role |-> IF rows = {} THEN "admin" ELSE "user", deleted |-> FALSE]
             c == RepoCreate(rows, user, dbCreate)
         IN  IF c.err # NoErr
             THEN [rows |-> rows, user |-> ZeroUser, err |-> ErrCreatingUser,
                   hashed |-> TRUE]
             ELSE [rows |-> c.rows, user |-> c.user, err |-> NoErr, hashed |-> TRUE]

Register(rows, email, password, dbFind, dbCreate) ==
    IF FindByEmail(rows, email, dbFind).err = NoErr
    THEN [rows |-> rows, user |-> ZeroUser, err |-> ErrEmailTaken, hashed |-> FALSE]
    ELSE LET user == [id |-> "", email |-> email, hash |-> GenerateFromPassword(password),
                      role |-> "user", deleted |-> FALSE]
             c == RepoCreate(rows, user, dbCreate)
         IN  IF c.err # NoErr
             THEN [rows |-> rows, user |-> ZeroUser, err |-> ErrCreatingUser,
                   hashed |-> TRUE]
             ELSE [rows |-> c.rows, user |-> c.user, err |-> NoErr, hashed |-> TRUE]

Login(m, rows, email, password, dbOK, t) ==
    LET f == FindByEmail(rows, email, dbOK) IN
    IF f.err # NoErr /\ f.err = ErrNotFound
    THEN [user |-> ZeroUser, pair |-> NoPair, err |-> f.err, compared |-> FALSE]
    ELSE IF f.isNil
    THEN [user |-> ZeroUser, pair |-> NoPair, err |-> "panic: nil pointer dereference",
          compared |-> TRUE]
    ELSE IF ~CompareHashAndPassword(f.user.hash, password)
    THEN [user |-> ZeroUser, pair |-> NoPair, err |-> ErrInvalidCredentials,
          compared |-> TRUE]
    ELSE [user |-> f.user, pair |-> issueTokenPair(m, f.user.id, f.user.role, t),
          err |-> NoErr, compared |-> TRUE]

\* faulty variant of RefreshTokens: the new refresh token keeps the expiry of
\* the presented one
RefreshTokensKeepsExpiry(m, rows, refreshToken, dbOK, t) ==
    LET p == Parse(m, refreshToken, t) IN
    IF p.err # NoErr THEN [pair |-> NoPair, err |-> ErrInvalidRefreshToken]
    ELSE IF p.claims.type # RefreshToken THEN [pair |-> NoPair, err |-> ErrInvalidRefreshToken]
    ELSE LET f == FindByEmail(rows, p.claims.id, dbOK) IN
    IF f.err # NoErr THEN [pair |-> NoPair, err |-> ErrInvalidCredentials]
    ELSE [pair |-> [access |-> GenerateAccessToken(m, f.user.id, f.user.role, t),
                    refresh |-> Token("HS256", m.secret,
                                      Claims(f.user.id, f.user.role, RefreshToken,
                                             NewNumericDate(t), p.claims.exp))],
          err |-> NoErr]

RefreshTokens(m, rows, refreshToken, dbOK, t) ==
    LET p == Parse(m, refreshToken, t) IN
    IF p.err # NoErr THEN [pair |-> NoPair, err |-> ErrInvalidRefreshToken]
    ELSE IF p.claims.type # RefreshToken THEN [pair |-> NoPair, err |-> ErrInvalidRefreshToken]
    ELSE LET f == FindByEmail(rows, p.claims.id, dbOK) IN
    IF f.err # NoErr THEN [pair |-> NoPair, err |-> ErrInvalidCredentials]
    ELSE [pair |-> issueTokenPair(m, f.user.id, f.user.role, t), err |-> NoErr]

ErrFindingUser == "finding user by id: record not found"

\* UserService.Update: load by id, overwrite the email when one is given, save
Update(rows, id, email, dbFind, dbSave) ==
    LET f == FindByID(rows, id, dbFind) IN
    IF f.err # NoErr
    THEN [rows |-> rows, user |-> ZeroUser, err |-> ErrFindingUser,
          calls |-> <<"FindByID">>]
    ELSE LET user == IF email # "" THEN [f.user EXCEPT !.email = email] ELSE f.user
             u == RepoUpdate(rows, user, dbSave)
         IN  IF u.err # NoErr
             THEN [rows |-> rows, user |-> ZeroUser, err |-> u.err,
                   calls |-> <<"FindByID", "Update">>]
             ELSE [rows |-> u.rows, user |-> user, err |-> NoErr,
                   calls |-> <<"FindByID", "Update">>]

SoftDelete(rows, id, dbOK) == RepoSoftDelete(rows, id, dbOK)

-----------------------------------------------------------------------------
(* State after construction (cmd/api/main.go): empty stores, no request yet *)

Procs == {"r1", "r2"}

Idle == [op |-> "none"]

NoError == [wrap |-> "", cause |-> NoErr]

SagaIdle ==
    [pc |-> "idle", note |-> "", file |-> <<>>, key |-> <<>>, ctxDone |-> FALSE,
     err |-> NoError]

RegIdle ==
    [pc |-> "idle", email |-> "", user |-> ZeroUser, passed |-> FALSE,
     dbCreate |-> TRUE, err |-> NoErr, status |-> 0]

Init ==
    /\ now = 0
    /\ wire = {}
    /\ resp = Idle
    /\ users = {}
    /\ blobs = {}
    /\ atts = {}
    /\ saga = [p \in Procs |-> SagaIdle]
    /\ calls = [p \in Procs |-> <<>>]
    /\ reg = [p \in Procs |-> RegIdle]
    /\ msgs = <<>>

\* time passes; the response of the last request is consumed
Tick ==
    /\ now < MaxTime
    /\ now' = now + 1
    /\ resp' = Idle
    /\ UNCHANGED <<wire, users, blobs, atts, saga, calls, reg, msgs>>

-----------------------------------------------------------------------------
(* Token service and session middleware: the requests a client can make *)

\* What a client can present, given the tokens it holds: those tokens, the same
\* claims signed again under any algorithm with either secret, the token with
\* its declared algorithm, role, kind or expiry altered under the old signature,
\* and a string that is no token.
Presentable ==
    wire
    \cup {Token(a, k, tk.claims) : a \in Algs, k \in {Secret, OtherSecret}, tk \in wire}
    \cup {[tk EXCEPT !.alg = "HS384"] : tk \in wire}
    \cup {[tk EXCEPT !.claims.role = "admin"] : tk \in wire}
    \cup {[tk EXCEPT !.claims.type = AccessToken] : tk \in wire}
    \cup {[tk EXCEPT !.claims.exp = MaxTime + TimePrecision] : tk \in wire}
    \cup {Garbage}

Headers ==
    {<<>>, <<HWord("Bearer")>>, <<HWord("Bearer"), HSp>>}
    \cup {<<HWord("Bearer"), HSp, HTok(tk)>> : tk \in Presentable}
    \cup {<<HWord(w), HSp, HTok(tk)>> : w \in {"bearer", "BEARER", "Basic"}, tk \in wire}
    \cup {<<HWord("Bearer"), HSp, HSp, HTok(tk)>> : tk \in wire}
    \cup {<<HTok(tk)>> : tk \in wire}

\* a Manager mints an access token for a client
IssueAccess(m, userID, role) ==
    /\ wire' = {GenerateAccessToken(m, userID, role, now)}
    /\ resp' = Idle
    /\ UNCHANGED <<now, users, blobs, atts, saga, calls, reg, msgs>>

\* a Manager mints a refresh token for a client
IssueRefresh(m, userID, role) ==
    /\ wire' = {GenerateRefreshToken(m, userID, role, now)}
    /\ resp' = Idle
    /\ UNCHANGED <<now, users, blobs, atts, saga, calls, reg, msgs>>

\* Manager.Parse is called on a token string
ParseCall(m, tokenStr) ==
    /\ resp' = [op |-> "Parse", mgr |-> m, tok |-> tokenStr, at |-> now,
                res |-> Parse(m, tokenStr, now)]
    /\ UNCHANGED <<now, wire, users, blobs, atts, saga, calls, reg, msgs>>

\* faulty variant of AuthenticateRequest: the subject is looked up in the store
\* and a request of a subject without live record is refused
AuthenticateRequestChecksStore(header) ==
    /\ LET ctx == Authenticate(NewManager, header, now) IN
       resp' = [op |-> "Authenticate", header |-> header, at |-> now,
                ctx |-> IF ctx.injected /\ ~\E r \in Live(users) : r.id = ctx.userID
                        THEN Rejected(401, "invalid or expired token")
                        ELSE ctx]
    /\ UNCHANGED <<now, wire, users, blobs, atts, saga, calls, reg, msgs>>

\* a request to a protected route passes through Authenticate (router.go:60-61)
AuthenticateRequest(header) ==
    /\ resp' = [op |-> "Authenticate", header |-> header, at |-> now,
                ctx |-> Authenticate(NewManager, header, now)]
    /\ UNCHANGED <<now, wire, users, blobs, atts, saga, calls, reg, msgs>>

\* GET /api/v1/users: Authenticate, then RequireRole("admin"), then UserHandler.List
UsersListRequest(header) ==
    /\ LET out == RunChain(UsersListChain, NewManager, FreshContext, <<>>, header, now) IN
       resp' = [op |-> "UsersList", header |-> header, ctx |-> out.ctx, ran |-> out.ran]
    /\ UNCHANGED <<now, wire, users, blobs, atts, saga, calls, reg, msgs>>

NextToken ==
    \/ Tick
    \/ \E m \in Managers, u \in UserIDs, r \in Roles : IssueAccess(m, u, r)
    \/ \E m \in Managers, u \in UserIDs, r \in Roles : IssueRefresh(m, u, r)
    \/ \E m \in Managers, tk \in Presentable : ParseCall(m, tk)
    \/ \E h \in Headers : AuthenticateRequest(h)
    \/ \E h \in Headers : UsersListRequest(h)

SpecToken == Init /\ [][NextToken]_vars

-----------------------------------------------------------------------------
(* AuthHandler (handlers/auth_handler.go) over UserService: the public routes *)

\* AuthHandler.Login: the status written for the service's error
LoginStatus(err) ==
    IF err = NoErr THEN 200
    ELSE IF err = ErrInvalidCredentials THEN 401
    ELSE 500

\* AuthHandler.Register
RegisterStatus(err) ==
    IF err = NoErr THEN 201
    ELSE IF err = ErrEmailTaken THEN 409
    ELSE 500

\* AuthHandler.Refresh
RefreshStatus(err) == IF err = NoErr THEN 200 ELSE 401

\* POST /auth/register
RegisterRequest(email, password, dbFind, dbCreate) ==
    /\ \E i \in UserIDs : \A r \in users : r.id # i
    /\ LET out == Register(users, email, password, dbFind, dbCreate) IN
       /\ users' = out.rows
       /\ resp' = [op |-> "Register", email |-> email, password |-> password,
                   err |-> out.err, status |-> RegisterStatus(out.err),
                   user |-> out.user, hashed |-> out.hashed]
    /\ UNCHANGED <<now, wire, blobs, atts, saga, calls, reg, msgs>>

\* POST /auth/login; what the lookup would find is recorded with the outcome
LoginRequest(email, password, dbOK) ==
    /\ LET out == Login(NewManager, users, email, password, dbOK, now) IN
       /\ resp' = [op |-> "Login", email |-> email, password |-> password, dbOK |-> dbOK,
                   err |-> out.err, status |-> LoginStatus(out.err),
                   user |-> out.user, pair |-> out.pair, compared |-> out.compared]
       /\ wire' = IF out.err = NoErr THEN {out.pair.access, out.pair.refresh} ELSE wire
    /\ UNCHANGED <<now, users, blobs, atts, saga, calls, reg, msgs>>

\* What a client can send to /auth/refresh: a token it holds, such a token with
\* its role altered under the old signature, or a string that is no token
RefreshInputs ==
    wire \cup {[tk EXCEPT !.claims.role = "admin"] : tk \in wire} \cup {Garbage}

\* faulty variant of RefreshRequest: refresh tokens rotate, a token that a later
\* refresh token has superseded is refused
RefreshRequestRotating(refreshToken, dbOK) ==
    /\ LET superseded == \E r \in wire : /\ r.claims.type = RefreshToken
                                         /\ r.claims.iat > refreshToken.claims.iat
           out == IF superseded THEN [pair |-> NoPair, err |-> ErrInvalidRefreshToken]
                  ELSE RefreshTokens(NewManager, users, refreshToken, dbOK, now)
       IN
       /\ resp' = [op |-> "Refresh", tok |-> refreshToken, dbOK |-> dbOK,
                   err |-> out.err, status |-> RefreshStatus(out.err), pair |-> out.pair]
       /\ wire' = IF out.err = NoErr
                  THEN {refreshToken, out.pair.access, out.pair.refresh}
                  ELSE wire
    /\ UNCHANGED <<now, users, blobs, atts, saga, calls, reg, msgs>>

\* POST /auth/refresh with a token string in the body; the client keeps the
\* token it presented next to the new pair
RefreshRequest(refreshToken, dbOK) ==
    /\ LET out == RefreshTokens(NewManager, users, refreshToken, dbOK, now) IN
       /\ resp' = [op |-> "Refresh", tok |-> refreshToken, dbOK |-> dbOK,
                   err |-> out.err, status |-> RefreshStatus(out.err), pair |-> out.pair]
       /\ wire' = IF out.err = NoErr
                  THEN {refreshToken, out.pair.access, out.pair.refresh}
                  ELSE wire
    /\ UNCHANGED <<now, users, blobs, atts, saga, calls, reg, msgs>>

\* UserService.SoftDelete of a credential record
SoftDeleteCall(id, dbOK) ==
    /\ LET out == SoftDelete(users, id, dbOK) IN
       /\ users' = out.rows
       /\ resp' = [op |-> "SoftDelete", id |-> id, err |-> out.err]
    /\ UNCHANGED <<now, wire, blobs, atts, saga, calls, reg, msgs>>

NextUser ==
    \/ Tick
    \/ \E e \in Emails, pw \in Passwords, d1, d2 \in BOOLEAN : RegisterRequest(e, pw, d1, d2)
    \/ \E e \in Emails, pw \in Passwords, d \in BOOLEAN : LoginRequest(e, pw, d)
    \/ \E tk \in RefreshInputs, d \in BOOLEAN : RefreshRequest(tk, d)
    \/ \E i \in UserIDs, d \in BOOLEAN : SoftDeleteCall(i, d)

SpecUser == Init /\ [][NextUser]_vars

-----------------------------------------------------------------------------
(* UserHandler (handlers) behind Authenticate: PATCH and DELETE /users/:id *)

\* request bodies of PATCH /users/:id: one that does not bind or validate, and
\* valid ones with or without a new email
UpdateInputs ==
    {[valid |-> FALSE, email |-> ""]}
    \cup {[valid |-> TRUE, email |-> e] : e \in Emails \cup {""}}

\* faulty variant of UserHandlerUpdate: the caller check is missing
UserHandlerUpdateNoGuard(ctx, id, in, rows, dbFind, dbSave) ==
    IF ~in.valid
    THEN [status |-> 400, rows |-> rows, calls |-> <<>>]
    ELSE LET out == Update(rows, id, in.email, dbFind, dbSave) IN
         [status |-> IF out.err = NoErr THEN 200
                     ELSE IF out.err = ErrFindingUser THEN 404
                     ELSE 500,
          rows |-> out.rows, calls |-> out.calls]

\* UserHandler.Update: same subject or admin, then bind and validate, then the service
UserHandlerUpdate(ctx, id, in, rows, dbFind, dbSave) ==
    IF id # ctx.userID /\ ctx.role # "admin"
    THEN [status |-> 403, rows |-> rows, calls |-> <<>>]
    ELSE IF ~in.valid
    THEN [status |-> 400, rows |-> rows, calls |-> <<>>]
    ELSE LET out == Update(rows, id, in.email, dbFind, dbSave) IN
         [status |-> IF out.err = NoErr THEN 200
                     ELSE IF out.err = ErrFindingUser THEN 404
                     ELSE 500,
          rows |-> out.rows, calls |-> out.calls]

\* UserHandler.Delete: same subject or admin, then the soft delete
UserHandlerDelete(ctx, id, rows, dbOK) ==
    IF id # ctx.userID /\ ctx.role # "admin"
    THEN [status |-> 403, rows |-> rows, calls |-> <<>>]
    ELSE LET out == SoftDelete(rows, id, dbOK) IN
         [status |-> IF out.err = NoErr THEN 200 ELSE 404,
          rows |-> out.rows, calls |-> <<"SoftDelete">>]

\* PATCH /api/v1/users/:id: Authenticate, then UserHandler.Update
UpdateRequest(header, id, in, dbFind, dbSave) ==
    /\ \E i \in UserIDs : \A r \in users : r.id # i
    /\ LET ctx == Authenticate(NewManager, header, now)
           out == IF ctx.aborted
                  THEN [status |-> ctx.status, rows |-> users, calls |-> <<>>]
                  ELSE UserHandlerUpdate(ctx, id, in, users, dbFind, dbSave)
       IN  /\ users' = out.rows
           /\ resp' = [op |-> "UserUpdate", id |-> id, ctx |-> ctx,
                       status |-> out.status, calls |-> out.calls]
    /\ UNCHANGED <<now, wire, blobs, atts, saga, calls, reg, msgs>>

\* DELETE /api/v1/users/:id: Authenticate, then UserHandler.Delete
DeleteRequest(header, id, dbOK) ==
    /\ LET ctx == Authenticate(NewManager, header, now)
           out == IF ctx.aborted
                  THEN [status |-> ctx.status, rows |-> users, calls |-> <<>>]
                  ELSE UserHandlerDelete(ctx, id, users, dbOK)
       IN  /\ users' = out.rows
           /\ resp' = [op |-> "UserDelete", id |-> id, ctx |-> ctx,
                       status |-> out.status, calls |-> out.calls]
    /\ UNCHANGED <<now, wire, blobs, atts, saga, calls, reg, msgs>>

\* utils.Response as written by c.JSON: one envelope per call
Envelope(status, success) == [status |-> status, success |-> success]

\* NoteHandler.List: the error branch writes InternalError and does not return
NoteHandlerList(svcOK) ==
    (IF ~svcOK THEN <<Envelope(500, FALSE)>> ELSE <<>>) \o <<Envelope(200, TRUE)>>

\* NoteHandler.Update: bind and validate return after BadRequest; the service's
\* error branch writes BadRequest and does not return
NoteHandlerUpdate(bindOK, validOK, svcOK) ==
    IF ~bindOK THEN <<Envelope(400, FALSE)>>
    ELSE IF ~validOK THEN <<Envelope(400, FALSE)>>
    ELSE (IF ~svcOK THEN <<Envelope(400, FALSE)>> ELSE <<>>) \o <<Envelope(200, TRUE)>>

\* GET /api/v1/notes: Authenticate, then NoteHandler.List
NoteListRequest(header, svcOK) ==
    /\ LET ctx == Authenticate(NewManager, header, now) IN
       resp' = [op |-> "NoteList", ctx |-> ctx,
                written |-> IF ctx.aborted THEN <<Envelope(ctx.status, FALSE)>>
                            ELSE NoteHandlerList(svcOK)]
    /\ UNCHANGED <<now, wire, users, blobs, atts, saga, calls, reg, msgs>>

\* PATCH /api/v1/notes/:id: Authenticate, then NoteHandler.Update
NoteUpdateRequest(header, bindOK, validOK, svcOK) ==
    /\ LET ctx == Authenticate(NewManager, header, now) IN
       resp' = [op |-> "NoteUpdate", ctx |-> ctx,
                written |-> IF ctx.aborted THEN <<Envelope(ctx.status, FALSE)>>
                            ELSE NoteHandlerUpdate(bindOK, validOK, svcOK)]
    /\ UNCHANGED <<now, wire, users, blobs, atts, saga, calls, reg, msgs>>

\* the Authorization headers of the user requests: none, or a bearer token the
\* client holds, as issued or with its role altered under the old signature
AccountHeaders ==
    {<<>>}
    \cup {<<HWord("Bearer"), HSp, HTok(tk)>> : tk \in wire}
    \cup {<<HWord("Bearer"), HSp, HTok([tk EXCEPT !.claims.role = "admin"])>> : tk \in wire}

NextAccount ==
    \/ \E e \in Emails, pw \in Passwords, d1, d2 \in BOOLEAN : RegisterRequest(e, pw, d1, d2)
    \/ \E u \in UserIDs, r \in Roles : IssueAccess(NewManager, u, r)
    \/ \E h \in AccountHeaders, i \in UserIDs, in \in UpdateInputs, d1, d2 \in BOOLEAN :
           UpdateRequest(h, i, in, d1, d2)
    \/ \E h \in AccountHeaders, i \in UserIDs, d \in BOOLEAN : DeleteRequest(h, i, d)
    \/ \E h \in AccountHeaders, ok \in BOOLEAN : NoteListRequest(h, ok)
    \/ \E h \in AccountHeaders, b, v, ok \in BOOLEAN : NoteUpdateRequest(h, b, v, ok)

SpecAccount == Init /\ [][NextAccount]_vars

-----------------------------------------------------------------------------
(* Sessions against a changing store: tokens are minted, records come and go *)

NextSession ==
    \/ Tick
    \/ \E u \in UserIDs, r \in Roles : IssueAccess(NewManager, u, r)
    \/ \E e \in Emails, pw \in Passwords : RegisterRequest(e, pw, TRUE, TRUE)
    \/ \E i \in UserIDs : SoftDeleteCall(i, TRUE)
    \/ \E h \in AccountHeaders : AuthenticateRequest(h)

SpecSession == Init /\ [][NextSession]_vars

-----------------------------------------------------------------------------
(* The life of a credential record: every UserService call that writes or issues *)

\* UserService.Update of a record's email
UpdateCall(id, email, dbFind, dbSave) ==
    /\ \E i \in UserIDs : \A r \in users : r.id # i
    /\ LET out == Update(users, id, email, dbFind, dbSave) IN
       /\ users' = out.rows
       /\ resp' = [op |-> "Update", id |-> id, err |-> out.err]
    /\ UNCHANGED <<now, wire, blobs, atts, saga, calls, reg, msgs>>

NextLifecycle ==
    \/ Tick
    \/ \E e \in Emails : RegisterRequest(e, "password1", TRUE, TRUE)
    \/ \E e \in Emails, pw \in Passwords : LoginRequest(e, pw, TRUE)
    \/ \E tk \in RefreshInputs, d \in BOOLEAN : RefreshRequest(tk, d)
    \/ \E i \in UserIDs, e \in Emails \cup {""}, d \in BOOLEAN : UpdateCall(i, e, d, TRUE)
    \/ \E i \in UserIDs : SoftDeleteCall(i, TRUE)

SpecLifecycle == Init /\ [][NextLifecycle]_vars

-----------------------------------------------------------------------------
(* UserService.Register step by step: each request runs in its own goroutine, *)
(* and the lookup and the insert are separate statements against the store    *)

\* Register up to the insert: the lookup, then bcrypt and the user to insert
RegisterLookup(p, email, password, dbFind) ==
    /\ reg[p].pc = "idle"
    /\ reg' = [reg EXCEPT ![p] =
           IF FindByEmail(users, email, dbFind).err = NoErr
           THEN [RegIdle EXCEPT !.pc = "done", !.email = email, !.err = ErrEmailTaken,
                                !.status = RegisterStatus(ErrEmailTaken)]
           ELSE [RegIdle EXCEPT !.pc = "create", !.email = email, !.passed = TRUE,
                                !.user = [id |-> "", email |-> email,
                                          hash |-> GenerateFromPassword(password),
                                          role |-> "user", deleted |-> FALSE]]]
    /\ UNCHANGED <<now, wire, resp, users, blobs, atts, saga, calls, msgs>>

\* Register from repo.Create to the handler's response
RegisterCreate(p, dbCreate) ==
    /\ reg[p].pc = "create"
    /\ LET c == RepoCreate(users, reg[p].user, dbCreate)
           err == IF c.err # NoErr THEN ErrCreatingUser ELSE NoErr
       IN  /\ users' = c.rows
           /\ reg' = [reg EXCEPT ![p].pc = "done", ![p].dbCreate = dbCreate,
                                 ![p].user = IF err = NoErr THEN c.user ELSE ZeroUser,
                                 ![p].err = err, ![p].status = RegisterStatus(err)]
    /\ UNCHANGED <<now, wire, resp, blobs, atts, saga, calls, msgs>>

\* the response is written and the goroutine ends
RegisterReturn(p) ==
    /\ reg[p].pc = "done"
    /\ reg' = [reg EXCEPT ![p] = RegIdle]
    /\ UNCHANGED <<now, wire, resp, users, blobs, atts, saga, calls, msgs>>

NextRegister ==
    \/ \E p \in Procs, e \in Emails, pw \in Passwords, d \in BOOLEAN :
           RegisterLookup(p, e, pw, d)
    \/ \E p \in Procs, d \in BOOLEAN : RegisterCreate(p, d)
    \/ \E p \in Procs : RegisterReturn(p)

SpecRegister == Init /\ [][NextRegister]_vars

-----------------------------------------------------------------------------
(* Upload saga: AttachmentService.Create (services), storage.Client, attachmentRepo *)

NoteIDs == {"n1"}

\* file names as the client sends them, character by character
Filenames == {<<"d", "/", "a", " ", "b">>, <<"a", "_", "b">>}

RECURSIVE LastSlash(_, _)
LastSlash(path, i) ==
    IF i = 0 THEN 0
    ELSE IF path[i] = "/" THEN i
    ELSE LastSlash(path, i - 1)

RECURSIVE StripTrailingSlashes(_)
StripTrailingSlashes(path) ==
    IF Len(path) > 0 /\ path[Len(path)] = "/"
    THEN StripTrailingSlashes(SubSeq(path, 1, Len(path) - 1))
    ELSE path

\* filepath.Base
Base(path) ==
    IF path = <<>> THEN <<".">>
    ELSE LET q == StripTrailingSlashes(path)
             r == SubSeq(q, LastSlash(q, Len(q)) + 1, Len(q))
         IN  IF r = <<>> THEN <<"/">> ELSE r

\* strings.ReplaceAll(s, " ", "_")
ReplaceAll(str) == [i \in 1..Len(str) |-> IF str[i] = " " THEN "_" ELSE str[i]]

\* time.Time.UnixMilli: the clock's tick is the millisecond
UnixMilli(t) == t

\* the storage key "attachments/<noteID>/<unix ms>_<safe name>"
S3Key(noteID, t, filename) == <<"attachments", noteID, UnixMilli(t), ReplaceAll(Base(filename))>>

WrapErr(msg, cause) == [wrap |-> msg, cause |-> cause]

ErrCanceled == "context canceled"

ErrS3 == "s3 error"

Call(fn, key, err) == [fn |-> fn, key |-> key, err |-> err]

\* a request enters AttachmentService.Create: the key is derived (lines 167-174)
CreateBegin(p, noteID, filename) ==
    /\ saga[p].pc = "idle"
    /\ saga' = [saga EXCEPT ![p] = [pc |-> "upload", note |-> noteID, file |-> filename,
                                    key |-> S3Key(noteID, now, filename),
                                    ctxDone |-> FALSE, err |-> NoError]]
    /\ UNCHANGED <<now, wire, resp, users, blobs, atts, calls, reg, msgs>>

\* the caller's request context is canceled while Create runs
Cancel(p) ==
    /\ saga[p].pc \in {"upload", "save", "compensate"}
    /\ ~saga[p].ctxDone
    /\ saga' = [saga EXCEPT ![p].ctxDone = TRUE]
    /\ UNCHANGED <<now, wire, resp, users, blobs, atts, calls, reg, msgs>>

\* faulty variant of UploadStep: a failed upload does not return, Create goes on
UploadStepIgnoresFailure(p, s3OK) ==
    /\ saga[p].pc = "upload"
    /\ LET err == IF saga[p].ctxDone THEN ErrCanceled ELSE IF s3OK THEN NoErr ELSE ErrS3 IN
       /\ calls' = [calls EXCEPT ![p] = Append(@, Call("Upload", saga[p].key, err))]
       /\ blobs' = IF err = NoErr THEN blobs \cup {saga[p].key} ELSE blobs
       /\ saga' = [saga EXCEPT ![p].pc = "save"]
    /\ UNCHANGED <<now, wire, resp, users, atts, reg, msgs>>

\* s3Client.Upload (lines 190-198): PutObject stores the blob or fails; a failure
\* returns from Create at once
UploadStep(p, s3OK) ==
    /\ saga[p].pc = "upload"
    /\ LET err == IF saga[p].ctxDone THEN ErrCanceled ELSE IF s3OK THEN NoErr ELSE ErrS3 IN
       /\ calls' = [calls EXCEPT ![p] = Append(@, Call("Upload", saga[p].key, err))]
       /\ blobs' = IF err = NoErr THEN blobs \cup {saga[p].key} ELSE blobs
       /\ saga' = IF err = NoErr
                  THEN [saga EXCEPT ![p].pc = "save"]
                  ELSE [saga EXCEPT ![p].pc = "done",
                                    ![p].err = WrapErr("uploading attachment to S3", err)]
    /\ UNCHANGED <<now, wire, resp, users, atts, reg, msgs>>

\* faulty variant of CreateStep: a failed metadata write returns without rollback
CreateStepNoRollback(p, dbOK) ==
    /\ saga[p].pc = "save"
    /\ LET err == IF saga[p].ctxDone THEN ErrCanceled ELSE IF dbOK THEN NoErr ELSE ErrDB IN
       /\ calls' = [calls EXCEPT ![p] = Append(@, Call("Create", saga[p].key, err))]
       /\ atts' = IF err = NoErr
                  THEN atts \cup {[key |-> saga[p].key, note |-> saga[p].note,
                                   name |-> saga[p].file, by |-> p]}
                  ELSE atts
       /\ saga' = IF err = NoErr
                  THEN [saga EXCEPT ![p].pc = "done"]
                  ELSE [saga EXCEPT ![p].pc = "done",
                                    ![p].err = WrapErr("saving attachment metadata", err)]
    /\ UNCHANGED <<now, wire, resp, users, blobs, reg, msgs>>

\* faulty variant of CreateStep: the rollback runs after a successful write too
CreateStepAlwaysRollback(p, dbOK) ==
    /\ saga[p].pc = "save"
    /\ LET err == IF saga[p].ctxDone THEN ErrCanceled ELSE IF dbOK THEN NoErr ELSE ErrDB IN
       /\ calls' = [calls EXCEPT ![p] = Append(@, Call("Create", saga[p].key, err))]
       /\ atts' = IF err = NoErr
                  THEN atts \cup {[key |-> saga[p].key, note |-> saga[p].note,
                                   name |-> saga[p].file, by |-> p]}
                  ELSE atts
       /\ saga' = [saga EXCEPT ![p].pc = "compensate",
                               ![p].err = IF err = NoErr THEN NoError
                                          ELSE WrapErr("saving attachment metadata", err)]
    /\ UNCHANGED <<now, wire, resp, users, blobs, reg, msgs>>

\* faulty variant of CreateStep: with a canceled context the failed write
\* returns without attempting the rollback
CreateStepNoRollbackOnCancel(p, dbOK) ==
    /\ saga[p].pc = "save"
    /\ LET err == IF saga[p].ctxDone THEN ErrCanceled ELSE IF dbOK THEN NoErr ELSE ErrDB IN
       /\ calls' = [calls EXCEPT ![p] = Append(@, Call("Create", saga[p].key, err))]
       /\ atts' = IF err = NoErr
                  THEN atts \cup {[key |-> saga[p].key, note |-> saga[p].note,
                                   name |-> saga[p].file, by |-> p]}
                  ELSE atts
       /\ saga' = IF err = NoErr
                  THEN [saga EXCEPT ![p].pc = "done"]
                  ELSE [saga EXCEPT ![p].pc = IF saga[p].ctxDone THEN "done" ELSE "compensate",
                                    ![p].err = WrapErr("saving attachment metadata", err)]
    /\ UNCHANGED <<now, wire, resp, users, blobs, reg, msgs>>

\* repo.Create (line 211): the metadata row is written, or the write fails and
\* the saga goes on to roll the blob back
CreateStep(p, dbOK) ==
    /\ saga[p].pc = "save"
    /\ LET err == IF saga[p].ctxDone THEN ErrCanceled ELSE IF dbOK THEN NoErr ELSE ErrDB IN
       /\ calls' = [calls EXCEPT ![p] = Append(@, Call("Create", saga[p].key, err))]
       /\ atts' = IF err = NoErr
                  THEN atts \cup {[key |-> saga[p].key, note |-> saga[p].note,
                                   name |-> saga[p].file, by |-> p]}
                  ELSE atts
       /\ saga' = IF err = NoErr
                  THEN [saga EXCEPT ![p].pc = "done"]
                  ELSE [saga EXCEPT ![p].pc = "compensate",
                                    ![p].err = WrapErr("saving attachment metadata", err)]
    /\ UNCHANGED <<now, wire, resp, users, blobs, reg, msgs>>

\* s3Client.Delete (lines 218-224): the rollback; its own failure is only logged,
\* and Create returns the metadata error
DeleteStep(p, s3OK) ==
    /\ saga[p].pc = "compensate"
    /\ LET err == IF saga[p].ctxDone THEN ErrCanceled ELSE IF s3OK THEN NoErr ELSE ErrS3 IN
       /\ calls' = [calls EXCEPT ![p] = Append(@, Call("Delete", saga[p].key, err))]
       /\ blobs' = IF err = NoErr THEN blobs \ {saga[p].key} ELSE blobs
       /\ saga' = [saga EXCEPT ![p].pc = "done"]
    /\ UNCHANGED <<now, wire, resp, users, atts, reg, msgs>>

NextSaga ==
    \/ Tick
    \/ \E p \in Procs, n \in NoteIDs, f \in Filenames : CreateBegin(p, n, f)
    \/ \E p \in Procs : Cancel(p)
    \/ \E p \in Procs, ok \in BOOLEAN : UploadStep(p, ok)
    \/ \E p \in Procs, ok \in BOOLEAN : CreateStep(p, ok)
    \/ \E p \in Procs, ok \in BOOLEAN : DeleteStep(p, ok)

SpecSaga == Init /\ [][NextSaga]_vars

-----------------------------------------------------------------------------
(* ConversationHandler.SendMessage over MessageService and AttachmentService *)

\* what storage.Client.Upload returns: only URL is ever assigned; the
\* PresignedURL that AttachmentService.Create reads keeps its zero value
UploadOutput(key) == [URL |-> <<"https", "bucket.s3.amazonaws.com", key>>, PresignedURL |-> ""]

\* AttachmentService.Create from call to return, for a request that runs alone
AttachmentCreate(bl, at, noteID, filename, t, s3OK, dbOK, delOK) ==
    LET key == S3Key(noteID, t, filename) IN
    IF ~s3OK
    THEN [blobs |-> bl, atts |-> at, url |-> "",
          err |-> WrapErr("uploading attachment to S3", ErrS3)]
    ELSE IF ~dbOK
    THEN [blobs |-> IF delOK THEN bl \ {key} ELSE bl \cup {key}, atts |-> at, url |-> "",
          err |-> WrapErr("saving attachment metadata", ErrDB)]
    ELSE [blobs |-> bl \cup {key},
          atts |-> at \cup {[key |-> key, note |-> noteID, name |-> filename, by |-> "send"]},
          url |-> UploadOutput(key).PresignedURL, err |-> NoError]

\* the multipart part "attachment": absent, unreadable, or a file
NoFile == [part |-> "missing", name |-> <<>>]

BadFile == [part |-> "unparseable", name |-> <<>>]

FileParts == {NoFile, BadFile} \cup {[part |-> "file", name |-> f] : f \in Filenames}

\* MessageService.Create: one more row in table messages
MessageRow(role, content) == [role |-> role, content |-> content]

SendResult(status, url, rows, bl, at, sagaErr) ==
    [status |-> status, url |-> url, msgs |-> rows, blobs |-> bl, atts |-> at,
     sagaErr |-> sagaErr]

\* ConversationHandler.SendMessage: conversation lookup, user message, optional
\* attachment, assistant message, response
SendMessage(rows, bl, at, noteID, message, file, convOK, userOK, s3OK, dbOK, delOK, botOK, t) ==
    IF noteID = "" THEN SendResult(400, "", rows, bl, at, NoError)
    ELSE IF ~convOK THEN SendResult(400, "", rows, bl, at, NoError)
    ELSE IF ~userOK THEN SendResult(400, "", rows, bl, at, NoError)
    ELSE LET saved == Append(rows, MessageRow("user", message)) IN
    IF file.part = "unparseable" THEN SendResult(400, "", saved, bl, at, NoError)
    ELSE LET a == IF file.part = "file"
                  THEN AttachmentCreate(bl, at, noteID, file.name, t, s3OK, dbOK, delOK)
                  ELSE [blobs |-> bl, atts |-> at, url |-> "", err |-> NoError]
         IN
    IF a.err # NoError THEN SendResult(400, "", saved, a.blobs, a.atts, a.err)
    ELSE IF ~botOK THEN SendResult(400, "", saved, a.blobs, a.atts, NoError)
    ELSE SendResult(200, a.url,
                    Append(saved, MessageRow("assistant", "This is a mock AI response")),
                    a.blobs, a.atts, NoError)

Messages == {"hello"}

\* POST /conversations/send-message
SendMessageRequest(noteID, message, file, convOK, userOK, s3OK, dbOK, delOK, botOK) ==
    /\ Len(msgs) + 2 <= MaxMessages
    /\ LET out == SendMessage(msgs, blobs, atts, noteID, message, file,
                              convOK, userOK, s3OK, dbOK, delOK, botOK, now)
       IN  /\ msgs' = out.msgs
           /\ blobs' = out.blobs
           /\ atts' = out.atts
           /\ resp' = [op |-> "SendMessage", file |-> file, status |-> out.status,
                       url |-> out.url, sagaErr |-> out.sagaErr, first |-> Len(msgs) + 1]
    /\ UNCHANGED <<now, wire, users, saga, calls, reg>>

NextMessage ==
    \/ Tick
    \/ \E n \in NoteIDs \cup {""}, m \in Messages, f \in FileParts,
          c, u, s, d, x, b \in BOOLEAN :
           SendMessageRequest(n, m, f, c, u, s, d, x, b)

SpecMessage == Init /\ [][NextMessage]_vars

-----------------------------------------------------------------------------
(* Start-up: config.Load, then the container builds the Manager *)

\* a variable that is not in the environment at all
Unset == "(unset)"

EnvKeys == {"JWT_ACCESS_TTL", "JWT_REFRESH_TTL", "DB_HOST", "JWT_SECRET", "AWS_REGION"}

\* the environments a process can be started in
Environments ==
    {[k \in EnvKeys |->
         CASE k = "JWT_ACCESS_TTL" -> a
           [] k = "JWT_REFRESH_TTL" -> r
           [] k = "DB_HOST" -> d
           [] k = "JWT_SECRET" -> j
           [] OTHER -> w] :
        a \in {Unset, "1s", "bogus"}, r \in {Unset, "2s", "bogus"},
        d \in {Unset, "db"}, j \in {Unset, "", Secret, OtherSecret}, w \in {Unset, "eu"}}

\* os.Getenv: the empty string for a variable that is not set
Getenv(env, key) == IF env[key] = Unset THEN "" ELSE env[key]

\* getEnv(key, fallback)
getEnv(env, key, fallback) == IF Getenv(env, key) # "" THEN Getenv(env, key) ELSE fallback

\* faulty variant of mustEnv: an absent variable yields the empty string
mustEnvLenient(env, key) == [val |-> Getenv(env, key), panic |-> FALSE]

\* mustEnv(key): panics when the variable is absent or empty
mustEnv(env, key) ==
    IF Getenv(env, key) = "" THEN [val |-> "", panic |-> TRUE]
    ELSE [val |-> Getenv(env, key), panic |-> FALSE]

\* time.ParseDuration on the strings above, in ticks; 0 stands for a parse error
ParseDuration(str) ==
    CASE str = "15m" -> AccessTTL
      [] str = "168h" -> RefreshTTL
      [] str = "1s" -> TimePrecision
      [] str = "2s" -> 2 * TimePrecision
      [] OTHER -> 0

NoConfig == [secret |-> "", accessTTL |-> 0, refreshTTL |-> 0]

\* config.Load: the durations first (an error is returned), then the Config
\* literal, whose mustEnv calls panic in source order
Load(env) ==
    LET accessTTL == ParseDuration(getEnv(env, "JWT_ACCESS_TTL", "15m"))
        refreshTTL == ParseDuration(getEnv(env, "JWT_REFRESH_TTL", "168h"))
        db == mustEnv(env, "DB_HOST")
        secret == mustEnv(env, "JWT_SECRET")
        aws == mustEnv(env, "AWS_REGION")
    IN  IF accessTTL = 0 THEN [cfg |-> NoConfig, outcome |-> "error"]
        ELSE IF refreshTTL = 0 THEN [cfg |-> NoConfig, outcome |-> "error"]
        ELSE IF db.panic \/ secret.panic \/ aws.panic
        THEN [cfg |-> NoConfig, outcome |-> "panic"]
        ELSE [cfg |-> [secret |-> secret.val, accessTTL |-> accessTTL,
                       refreshTTL |-> refreshTTL],
              outcome |-> "loaded"]

\* main: Load, then container.New connects the database and builds the Manager
\* from the Config; any failure ends the process
Startup(env, dbUp) ==
    /\ resp.op = "none"
    /\ LET l == Load(env)
           built == l.outcome = "loaded" /\ dbUp
       IN  resp' = [op |-> "Startup", env |-> env, load |-> l.outcome, cfg |-> l.cfg,
                    built |-> built,
                    manager |-> IF built THEN l.cfg ELSE NoConfig]
    /\ UNCHANGED <<now, wire, users, blobs, atts, saga, calls, reg, msgs>>

\* the process ends; it can be started again
Shutdown ==
    /\ resp.op = "Startup"
    /\ resp' = Idle
    /\ UNCHANGED <<now, wire, users, blobs, atts, saga, calls, reg, msgs>>

NextStartup ==
    \/ \E env \in Environments, dbUp \in BOOLEAN : Startup(env, dbUp)
    \/ Shutdown

SpecStartup == Init /\ [][NextStartup]_vars

-----------------------------------------------------------------------------
(* Claims *)

\* the live credential record with this email, if any
HasLive(email) == \E r \in Live(users) : r.email = email

\* a token string this server's Manager signed: HS256 under the configured secret
SignedByServer(tk) ==
    /\ tk.wf
    /\ tk.alg = "HS256"
    /\ tk.sig = SignedString("HS256", Secret, tk.claims)

\* the header is exactly "<scheme> <token>" with the Bearer scheme (schemes are
\* case-insensitive) and one token string after one space
BearerForm(h) ==
    /\ Len(h) = 3
    /\ h[1].k = "word" /\ ToLower(h[1].w) = "bearer"
    /\ h[2].k = "sp"
    /\ h[3].k = "tok"

LoginNotFound == resp.op = "Login" /\ resp.dbOK /\ ~HasLive(resp.email)

LoginMismatch ==
    /\ resp.op = "Login" /\ resp.dbOK
    /\ \E r \in Live(users) : r.email = resp.email /\ r.hash # GenerateFromPassword(resp.password)

\* C1: Login answers "no record for the email" and "password does not match" with
\* the same error, ErrInvalidCredentials, which the handler turns into 401.
C1_LoginSameError ==
    (LoginNotFound \/ LoginMismatch)
        => (resp.err = ErrInvalidCredentials /\ resp.status = 401)

\* C2: a refresh with an unexpired refresh token this Manager issued for a live
\* user u succeeds, and the new access token parses to subject u, kind access.
C2_RefreshYieldsAccessForSubject ==
    (/\ resp.op = "Refresh" /\ resp.dbOK
     /\ SignedByServer(resp.tok)
     /\ resp.tok.claims.type = RefreshToken
     /\ now < resp.tok.claims.exp
     /\ \E r \in Live(users) : r.id = resp.tok.claims.id)
        => (/\ resp.err = NoErr
            /\ Parse(NewManager, resp.pair.access, now).err = NoErr
            /\ Parse(NewManager, resp.pair.access, now).claims.id = resp.tok.claims.id
            /\ Parse(NewManager, resp.pair.access, now).claims.type = AccessToken)

\* C3: Parse rejects every token whose declared algorithm is not HS256, also
\* one validly signed with the shared secret under that other algorithm.
C3_ParseRejectsOtherAlg ==
    (resp.op = "Parse" /\ resp.tok.wf /\ resp.tok.alg # "HS256")
        => (resp.res.err # NoErr /\ resp.res.claims = NoClaims)

\* C4: every attachment row's storage key holds a blob in the object store,
\* unless the saga that wrote the row is compensating.
C4_RecordHasBlob ==
    \A a \in atts : a.key \in blobs \/ saga[a.by].pc = "compensate"

\* an invocation whose upload succeeded and whose metadata write failed, returned
UploadedThenWriteFailed(p) ==
    /\ saga[p].pc = "done"
    /\ Len(calls[p]) >= 2
    /\ calls[p][1].fn = "Upload" /\ calls[p][1].err = NoErr
    /\ calls[p][2].fn = "Create" /\ calls[p][2].err # NoErr

\* C5: after a successful upload and a failed metadata write, Create has tried
\* to delete exactly the uploaded key, has left no attachment row of its own,
\* and returns the metadata write's error.
C5_CompensationOnWriteFailure ==
    \A p \in Procs : UploadedThenWriteFailed(p) =>
        /\ Len(calls[p]) = 3
        /\ calls[p][3].fn = "Delete" /\ calls[p][3].key = calls[p][1].key
        /\ ~\E a \in atts : a.by = p
        /\ saga[p].err.cause = calls[p][2].err

C5_Witness ==
    \E p \in Procs : UploadedThenWriteFailed(p) /\ calls[p][2].err = ErrDB /\ Len(calls[p]) = 3

\* the request was let through exactly as the token's claims say
LetThrough(ctx, claims) ==
    /\ ctx.next /\ ~ctx.aborted /\ ctx.injected
    /\ ctx.userID = claims.id /\ ctx.role = claims.role

Aborted401(ctx) ==
    /\ ctx.status = 401 /\ ctx.aborted
    /\ ~ctx.injected /\ ctx.userID = "" /\ ctx.role = ""
    /\ ~ctx.next

\* C6: Authenticate runs the downstream handler only for a header of the form
\* "Bearer <token>" whose token parses and is of kind access, and then injects
\* the token's userID and role; every other request is aborted with 401, with
\* no identity injected and no handler run.
C6_AuthenticateGate ==
    resp.op = "Authenticate" =>
        IF /\ BearerForm(resp.header)
           /\ Parse(NewManager, resp.header[3].t, now).err = NoErr
           /\ resp.header[3].t.claims.type = AccessToken
        THEN LetThrough(resp.ctx, resp.header[3].t.claims)
        ELSE Aborted401(resp.ctx)

C6_Witness ==
    /\ resp.op = "Authenticate"
    /\ resp.ctx.next /\ resp.ctx.userID = "u2" /\ resp.ctx.role = "admin"

\* C7: a correctly signed, unexpired refresh token in the Authorization header
\* is rejected with 401 and authenticates nothing.
C7_RefreshTokenRejected ==
    (/\ resp.op = "Authenticate"
     /\ BearerForm(resp.header)
     /\ SignedByServer(resp.header[3].t)
     /\ resp.header[3].t.claims.type = RefreshToken
     /\ now < resp.header[3].t.claims.exp)
        => Aborted401(resp.ctx)

C7_Witness ==
    /\ resp.op = "Authenticate"
    /\ BearerForm(resp.header)
    /\ SignedByServer(resp.header[3].t)
    /\ resp.header[3].t.claims.type = RefreshToken
    /\ now < resp.header[3].t.claims.exp
    /\ resp.ctx.reason = "invalid token type"

C9_OtherSecretRejected ==
    \A m \in Managers :
        (/\ resp.op = "Parse"
         /\ m.secret # resp.mgr.secret
         /\ resp.tok.wf
         /\ resp.tok.sig = SignedString("HS256", m.secret, resp.tok.claims)) =>
            (resp.res.err # NoErr /\ resp.res.claims = NoClaims)

C9_Witness ==
    /\ resp.op = "Parse"
    /\ resp.mgr = NewManager
    /\ resp.tok \in wire
    /\ resp.tok.sig = SignedString("HS256", OtherSecret, resp.tok.claims)
    /\ now < resp.tok.claims.exp
    /\ resp.res.err = ErrTokenInvalid

\* C10: a correctly signed access token past its expiry is rejected with 401
\* and the reason "token has expired"; the reason "invalid token" is given only
\* for a structural, signature or algorithm failure.
C10_ExpiredReason ==
    (/\ resp.op = "Authenticate"
     /\ BearerForm(resp.header)
     /\ SignedByServer(resp.header[3].t)
     /\ resp.header[3].t.claims.type = AccessToken
     /\ now >= resp.header[3].t.claims.exp)
        => (resp.ctx.status = 401 /\ resp.ctx.reason = "token has expired")

\* position of a handler among those that ran, 0 when it did not run
RanAt(ran, h) ==
    IF \E i \in 1..Len(ran) : ran[i].h = h
    THEN CHOOSE i \in 1..Len(ran) : ran[i].h = h
    ELSE 0

\* C11: on the route that registers it, RequireRole runs only after Authenticate
\* has injected the identity, and whenever the injected role is not in the
\* allow-list it answers 403 and aborts, so the route's handler does not run.
C11_RoleGateAfterIdentity ==
    resp.op = "UsersList" =>
        LET a == RanAt(resp.ran, "Authenticate")
            g == RanAt(resp.ran, "RequireRole")
            l == RanAt(resp.ran, "List")
        IN  /\ g # 0 => (a # 0 /\ a < g /\ resp.ran[g].injected)
            /\ (g # 0 /\ resp.ran[g].role # "admin") =>
                   (resp.ctx.status = 403 /\ resp.ctx.aborted /\ l = 0)
            /\ l # 0 => (g # 0 /\ g < l /\ resp.ran[g].role = "admin")

C11_Witness ==
    /\ resp.op = "UsersList"
    /\ Len(resp.ran) = 2
    /\ resp.ran[2].h = "RequireRole" /\ resp.ran[2].role = "user"
    /\ resp.ctx.status = 403

\* C12: a Register for an email that a record registered earlier still holds
\* (a live record) returns ErrEmailTaken, hashes no password, writes nothing to
\* the store, and the store keeps exactly one record with that email.
C12_SecondRegisterTaken ==
    [][(resp'.op = "Register" /\ HasLive(resp'.email)) =>
          /\ resp'.err = ErrEmailTaken
          /\ ~resp'.hashed
          /\ users' = users
          /\ Cardinality({r \in users' : r.email = resp'.email}) = 1]_vars

C12_Witness ==
    /\ resp.op = "Register"
    /\ resp.err = ErrEmailTaken /\ resp.status = 409
    /\ \E r \in Live(users) : r.email = resp.email /\ r.hash # GenerateFromPassword(resp.password)

\* C13: of two Register requests for one email that both pass the lookup before
\* either inserts, at most one creates a record, and the one that loses is
\* answered ErrEmailTaken / 409 and no other error.
C13_RaceLoserConflict ==
    \A p \in Procs :
        (reg[p].pc = "done" /\ reg[p].passed /\ reg[p].dbCreate
            /\ \E r \in users : r.email = reg[p].email /\ r # reg[p].user) =>
        /\ Cardinality({r \in users : r.email = reg[p].email}) <= 1
        /\ reg[p].err = ErrEmailTaken
        /\ reg[p].status = 409

\* C14: when the blob upload fails, Create returns that error at once: the
\* failed Upload is the invocation's only call (no repo.Create, no Delete) and
\* the step leaves the object store and the attachment rows as they were.
C14_UploadFailureStopsCreate ==
    [][\A p \in Procs :
          (calls'[p] # calls[p] /\ Len(calls'[p]) > 0
              /\ calls'[p][1].fn = "Upload" /\ calls'[p][1].err # NoErr) =>
          /\ calls[p] = <<>>
          /\ blobs' = blobs
          /\ atts' = atts
          /\ saga'[p].pc = "done"
          /\ saga'[p].err = WrapErr("uploading attachment to S3", calls'[p][1].err)]_vars

C14_Witness ==
    \E p \in Procs :
        /\ saga[p].pc = "done"
        /\ calls[p] = <<Call("Upload", saga[p].key, ErrS3)>>
        /\ saga[p].err.cause = ErrS3

\* C15: the side effects of one Create come in a fixed order: the Upload first;
\* repo.Create only after the Upload succeeded; Delete only after the repo.Create
\* of the same invocation failed, on the uploaded key, and nothing after it.
C15_SideEffectOrder ==
    \A p \in Procs :
        LET c == calls[p] IN
        /\ Len(c) <= 3
        /\ Len(c) >= 1 => c[1].fn = "Upload"
        /\ Len(c) >= 2 => (c[1].err = NoErr /\ c[2].fn = "Create")
        /\ Len(c) >= 3 => (c[2].err # NoErr /\ c[3].fn = "Delete" /\ c[3].key = c[1].key)

C15_Witness ==
    \E p, q \in Procs :
        /\ Len(calls[p]) = 3 /\ calls[p][3].fn = "Delete"
        /\ Len(calls[q]) = 2 /\ calls[q][2].err = NoErr /\ saga[q].pc = "done"

\* C16: when the compensating delete fails, Create has returned the metadata
\* write's error and not the delete's, the delete was attempted exactly once,
\* and the blob is left in the object store as an orphan: no Attachment Record
\* of this invocation, and none pointing at the blob's key.
C16_FailedDeleteLeavesOrphan ==
    \A p \in Procs :
        (Len(calls[p]) >= 3 /\ calls[p][3].fn = "Delete" /\ calls[p][3].err # NoErr) =>
        /\ saga[p].pc = "done"
        /\ saga[p].err = WrapErr("saving attachment metadata", calls[p][2].err)
        /\ Cardinality({i \in 1..Len(calls[p]) : calls[p][i].fn = "Delete"}) = 1
        /\ ~\E a \in atts : a.by = p
        /\ saga[p].key \in blobs
        /\ ~\E a \in atts : a.key = saga[p].key

\* C17: when the request context is canceled after the upload succeeded, so
\* that the metadata write fails, Create has attempted the compensating delete
\* of the uploaded key by the time it returns.
C17_RollbackAttemptedAfterCancel ==
    \A p \in Procs :
        (saga[p].pc = "done" /\ Len(calls[p]) >= 2
            /\ calls[p][1].err = NoErr
            /\ calls[p][2].fn = "Create" /\ calls[p][2].err = ErrCanceled) =>
        /\ Len(calls[p]) = 3
        /\ calls[p][3].fn = "Delete"
        /\ calls[p][3].key = calls[p][1].key

C17_Witness ==
    \E p \in Procs :
        /\ saga[p].pc = "done" /\ saga[p].ctxDone
        /\ Len(calls[p]) = 3
        /\ calls[p][1].err = NoErr
        /\ calls[p][2].err = ErrCanceled
        /\ calls[p][3].fn = "Delete" /\ calls[p][3].err = ErrCanceled

\* C18: RefreshTokens issues a pair only when the presented token parses, is of
\* kind refresh and its subject is still a live record; an access, expired or
\* tampered token gets ErrInvalidRefreshToken, a missing (soft-deleted) subject
\* gets ErrInvalidCredentials, and in those cases no token is issued.
C18_RefreshOnlyForLiveSubject ==
    resp.op = "Refresh" =>
        LET p == Parse(NewManager, resp.tok, now)
            valid == p.err = NoErr /\ p.claims.type = RefreshToken
            exists == valid /\ \E r \in Live(users) : r.id = p.claims.id
        IN  /\ resp.err = NoErr => exists
            /\ ~valid => (resp.err = ErrInvalidRefreshToken /\ resp.pair = NoPair)
            /\ (valid /\ ~exists) => (resp.err = ErrInvalidCredentials /\ resp.pair = NoPair)

\* C19: a successful Login returns one access and one refresh token, both
\* carrying the id of the record found for the email as subject and its stored
\* role, of kind access and refresh respectively; a failed Login returns no token.
C19_LoginPair ==
    resp.op = "Login" =>
        IF resp.err = NoErr
        THEN \E r \in Live(users) :
                 LET a == Parse(NewManager, resp.pair.access, now)
                     f == Parse(NewManager, resp.pair.refresh, now)
                 IN  /\ r.email = resp.email
                     /\ a.err = NoErr /\ f.err = NoErr
                     /\ a.claims.id = r.id /\ a.claims.role = r.role
                     /\ a.claims.type = AccessToken
                     /\ f.claims.id = r.id /\ f.claims.role = r.role
                     /\ f.claims.type = RefreshToken
                     /\ wire = {resp.pair.access, resp.pair.refresh}
        ELSE resp.pair = NoPair

C19_Witness ==
    /\ resp.op = "Login" /\ resp.err = NoErr
    /\ Cardinality(users) = 2
    /\ resp.pair.access.claims.id = resp.user.id
    /\ resp.pair.access # resp.pair.refresh

\* the whole second the instant t falls in: the precision of a token's dates
SecondOf(t) == t - (t % TimePrecision)

\* C20: every token issued by Login or RefreshTokens has issuedAt equal to the
\* time of issuance (to the second) and expiresAt equal to issuedAt plus the TTL
\* of its kind, whatever the expiry of the refresh token that was presented.
C20_IssuedNowPlusTTL ==
    (resp.op \in {"Login", "Refresh"} /\ resp.err = NoErr) =>
        /\ resp.pair.access.claims.iat = SecondOf(now)
        /\ resp.pair.access.claims.exp = resp.pair.access.claims.iat + AccessTTL
        /\ resp.pair.refresh.claims.iat = SecondOf(now)
        /\ resp.pair.refresh.claims.exp = resp.pair.refresh.claims.iat + RefreshTTL

C20_Witness ==
    /\ resp.op = "Refresh" /\ resp.err = NoErr
    /\ resp.tok.claims.exp < resp.pair.refresh.claims.exp
    /\ resp.pair.refresh.claims.exp = SecondOf(now) + RefreshTTL

SameSubjectOrAdmin(ctx, id) == ctx.injected /\ (ctx.userID = id \/ ctx.role = "admin")

\* C22: UserHandler.Update and UserHandler.Delete for path id X call the
\* credential store only when the injected caller id equals X or the injected
\* role is admin; any other authenticated caller gets 403, no store call is
\* made and every credential record stays as it was.
C22_SameSubjectOrAdmin ==
    [][resp'.op \in {"UserUpdate", "UserDelete"} =>
          /\ resp'.calls # <<>> => SameSubjectOrAdmin(resp'.ctx, resp'.id)
          /\ (resp'.ctx.injected /\ ~SameSubjectOrAdmin(resp'.ctx, resp'.id)) =>
                 (resp'.status = 403 /\ resp'.calls = <<>>)
          /\ resp'.calls = <<>> => users' = users]_vars

C22_Witness ==
    /\ resp.op = "UserUpdate"
    /\ resp.ctx.injected /\ resp.ctx.role = "user" /\ resp.ctx.userID # resp.id
    /\ resp.status = 403
    /\ \E r \in Live(users) : r.id = resp.id

\* C23: the response of SendMessage carries a non-empty presigned URL whenever
\* a file part was supplied and stored, and an empty URL when none was supplied.
C23_PresignedURLWhenAttached ==
    (resp.op = "SendMessage" /\ resp.status = 200) =>
        /\ resp.file.part = "file" => resp.url # ""
        /\ resp.file.part = "missing" => resp.url = ""

\* C28: whenever SendMessage answers with an error because the attachment saga
\* failed (upload or metadata write), no message row created by that request
\* remains in the store.
C28_SendMessageAllOrNothing ==
    (resp.op = "SendMessage" /\ resp.status = 400 /\ resp.sagaErr # NoError) =>
        Len(msgs) < resp.first

\* C24: config.Load never yields a Config with an empty signing secret: with
\* JWT_SECRET unset or empty, start-up fails (no default is used), and no
\* Manager is ever built with an empty secret.
C24_SecretRequired ==
    resp.op = "Startup" =>
        /\ resp.load = "loaded" => resp.cfg.secret # ""
        /\ Getenv(resp.env, "JWT_SECRET") = "" => (resp.load # "loaded" /\ ~resp.built)
        /\ resp.built => (resp.manager.secret # ""
                            /\ resp.manager.secret = resp.env["JWT_SECRET"])

C24_Witness ==
    /\ resp.op = "Startup"
    /\ resp.env["JWT_SECRET"] = ""
    /\ resp.env["DB_HOST"] = "db" /\ resp.env["AWS_REGION"] = "eu"
    /\ resp.load = "panic"

\* the email lookup of the answered Login found a credential record
LoginFound == resp.dbOK /\ HasLive(resp.email)

\* C25: whatever the email lookup of Login gives (record, no record, store
\* error), the password comparison runs only when a record was found; every
\* lookup failure ends in ErrInvalidCredentials before the comparison, and no
\* absent record is dereferenced.
C25_LoginShortCircuit ==
    resp.op = "Login" =>
        /\ resp.compared => LoginFound
        /\ ~LoginFound => (resp.err = ErrInvalidCredentials /\ ~resp.compared)
        /\ resp.err # "panic: nil pointer dereference"

\* C26: Register returns ErrEmailTaken only when a credential record with the
\* email exists in the store; a lookup that fails for another reason is not
\* reported as EmailTaken.
C26_EmailTakenOnlyWhenTaken ==
    (resp.op = "Register" /\ resp.err = ErrEmailTaken) =>
        \E r \in users : r.email = resp.email

\* C27: every request produces exactly one response envelope; NoteHandler.List
\* and NoteHandler.Update never write a success response after an error response.
C27_OneEnvelope ==
    resp.op \in {"NoteList", "NoteUpdate"} =>
        /\ Len(resp.written) = 1
        /\ \A i, j \in 1..Len(resp.written) :
               (i < j /\ ~resp.written[i].success) => ~resp.written[j].success

\* C29: what Authenticate decides and injects depends on the Authorization
\* header, the signing secret and the time only: a bearer access token of the
\* server is accepted with the token's identity until it expires, whether or
\* not the store has a live record of the subject or the same role for it.
C29_AuthenticateIgnoresStore ==
    resp.op = "Authenticate" =>
        /\ resp.ctx = Authenticate(NewManager, resp.header, now)
        /\ (/\ BearerForm(resp.header)
            /\ SignedByServer(resp.header[3].t)
            /\ resp.header[3].t.claims.type = AccessToken) =>
               IF now < resp.header[3].t.claims.exp
               THEN /\ resp.ctx.injected /\ resp.ctx.next
                    /\ resp.ctx.userID = resp.header[3].t.claims.id
                    /\ resp.ctx.role = resp.header[3].t.claims.role
               ELSE resp.ctx.aborted /\ ~resp.ctx.injected

C29_Witness ==
    /\ resp.op = "Authenticate"
    /\ resp.ctx.injected /\ resp.ctx.role = "admin"
    /\ \E r \in users : r.id = resp.ctx.userID /\ r.deleted /\ r.role = "user"

\* C30: every record Register creates has role "user" and a bcrypt hash of the
\* password, not the password; and no sequence of Register, Login,
\* RefreshTokens, Update and SoftDelete yields a record or an issued token with
\* role admin (no stored role is ever admin in these runs).
C30_NoAdminByRequests ==
    /\ (resp.op = "Register" /\ resp.err = NoErr) =>
           /\ resp.user.role = "user"
           /\ resp.user \in users
           /\ resp.user.hash[1] = "$2a$"
           /\ CompareHashAndPassword(resp.user.hash, resp.password)
    /\ \A r \in users : r.role # "admin"
    /\ \A tk \in wire : tk.claims.role # "admin"
    /\ (resp.op \in {"Login", "Refresh"} /\ resp.err = NoErr) =>
           (resp.pair.access.claims.role # "admin" /\ resp.pair.refresh.claims.role # "admin")

C30_Witness ==
    /\ resp.op = "Login" /\ resp.err = NoErr
    /\ resp.pair.access.claims.role = "user"
    /\ \E r \in users : r.id = resp.user.id /\ r.email # "a@x.io" /\ r.hash = GenerateFromPassword("password1")
    /\ \E r \in users : r.hash = <<>>
    /\ now > 0

=============================================================================
